---- MODULE Spec2Model ----
(***************************************************************************)
(* PipelineBTC: a pipe-and-filter orchestrator (src/pipeline.py) running   *)
(* five filters (src/filters/*.py) over a transaction dict, the last of    *)
(* which inserts a row into a SQLite table.                                *)
(*                                                                         *)
(* Python values are tagged records [t, s, n]: t is the Python type, s the *)
(* text as a sequence of characters, n the number.  BTC amounts are in     *)
(* units of 1e-5 BTC, money is in cents, fee rates are per mille.          *)
(***************************************************************************)
EXTENDS Integers, Sequences, FiniteSets, TLC

\* ------------------------------------------------------------------ bounds
MaxAmount == 2      \* btc_amount ranges over 1..MaxAmount units of 1e-5 BTC
MaxIds == 2         \* uuid4() draws from 1..MaxIds
MaxRuns == 2        \* calls of Pipeline.execute in one behaviour
MaxFilters == 3     \* length of a pipeline built with add_filter

\* ------------------------------------------------------------------ values
Str(cs) == [t |-> "str", s |-> cs, n |-> 0]
Lit(name) == Str(<<name>>)
Num(k) == [t |-> "num", s |-> <<>>, n |-> k]
None == [t |-> "NoneType", s |-> <<>>, n |-> 0]
PyTrue == [t |-> "bool", s |-> <<>>, n |-> 1]
\* float('nan'); an int of 2**63 or more; the float such an int multiplies to
NaN == [t |-> "num", s |-> <<"nan">>, n |-> 0]
BigInt == [t |-> "num", s |-> <<"int>=2**63">>, n |-> 0]
BigFloat == [t |-> "num", s |-> <<"float>=2**63">>, n |-> 0]

\* isinstance(v, (int, float)), over the values an amount ranges over here
IsNumber(v) == v.t = "num"
IsFinite(v) == v.t = "num" /\ v.s = <<>>
\* bool(v) is False
Falsy(v) ==
    \/ v.t = "NoneType"
    \/ v.t = "str" /\ v.s = <<>>
    \/ IsFinite(v) /\ v.n = 0
\* str(v)
PyStr(v) ==
    IF v.t = "str" THEN v.s
    ELSE IF v.t = "NoneType" THEN <<"N", "o", "n", "e">>
    ELSE IF v.t = "bool" THEN <<"T", "r", "u", "e">>
    ELSE <<"<number>">>
\* format(v, "<44") succeeds: str and numbers take the spec, NoneType does not
Formattable(v) == v.t \in {"str", "num", "bool"}

LowerCase == <<"a","b","c","d","e","f","g","h","i","j","k","l","m",
               "n","o","p","q","r","s","t","u","v","w","x","y","z">>
UpperCase == <<"A","B","C","D","E","F","G","H","I","J","K","L","M",
               "N","O","P","Q","R","S","T","U","V","W","X","Y","Z">>
UpperChar(c) ==
    IF \E i \in 1..Len(LowerCase) : LowerCase[i] = c
    THEN UpperCase[CHOOSE i \in 1..Len(LowerCase) : LowerCase[i] = c]
    ELSE c
\* str.upper()
Upper(cs) == [i \in 1..Len(cs) |-> UpperChar(cs[i])]
\* str.strip()
Strip(cs) ==
    IF \A i \in 1..Len(cs) : cs[i] = " " THEN <<>>
    ELSE LET first == CHOOSE i \in 1..Len(cs) :
                          cs[i] # " " /\ \A j \in 1..(i-1) : cs[j] = " "
             last == CHOOSE i \in 1..Len(cs) :
                          cs[i] # " " /\ \A j \in (i+1)..Len(cs) : cs[j] = " "
         IN SubSeq(cs, first, last)

\* ------------------------------------------------------------------- dicts
Has(d, k) == k \in DOMAIN d
Get(d, k, default) == IF Has(d, k) THEN d[k] ELSE default
Put(d, k, v) == [x \in (DOMAIN d) \cup {k} |-> IF x = k THEN v ELSE d[x]]
EmptyDict == [x \in {} |-> None]
\* the first key of ks that d[k] raises KeyError for, or "" when all are there
FirstMissing(d, ks) ==
    IF \A i \in 1..Len(ks) : Has(d, ks[i]) THEN ""
    ELSE ks[CHOOSE i \in 1..Len(ks) :
                ~Has(d, ks[i]) /\ \A j \in 1..(i-1) : Has(d, ks[j])]

\* -------------------------------------------------------------- exceptions
\* type: the Python class; origin: the code that raised; field and detail: what
\* the message says; context: what the orchestrator attached on the way up.
Exc(type, origin, fld, detail) ==
    [type |-> type, origin |-> origin, field |-> fld, detail |-> detail,
     context |-> <<>>]
NoExc == Exc("", "", "", "")
KeyErr(origin, k) == Exc("KeyError", origin, k, "missing key")

\* a filter's process() ended: the dict object as it left it, and the exception
Returned(d) == [ok |-> TRUE, data |-> d, exc |-> NoExc]
Raised(d, e) == [ok |-> FALSE, data |-> d, exc |-> e]

\* ------------------------------------------------------------------ tables
USD == <<"U", "S", "D">>
EUR == <<"E", "U", "R">>
GBP == <<"G", "B", "P">>
USR001 == <<"U", "S", "R", "0", "0", "1">>
USR004 == <<"U", "S", "R", "0", "0", "4">>
USR005 == <<"U", "S", "R", "0", "0", "5">>
USR999 == <<"U", "S", "R", "9", "9", "9">>

VALID_CURRENCIES == {USD, EUR, GBP}
\* price of 1e-5 BTC in tenths of a cent: 65,000.00 per BTC is 650
MOCK_BTC_RATES == (USD :> 650) @@ (EUR :> 605) @@ (GBP :> 518)
MOCK_API_SOURCE == Lit("MockBTCPriceAPI v1.0")
\* 5.00 USD, in cents
BASE_FEE_USD == 500
\* USD -> currency, per mille: 0.9240 is 924
FEE_CONVERSION_RATES == (USD :> 1000) @@ (EUR :> 924) @@ (GBP :> 792)
\* data/users.json as AuthenticationFilter._load_users indexes it: USR001 is
\* active, USR004 is suspended, USR005 carries no "active" key
Users ==
    (USR001 :> [name |-> Lit("Alice Johnson"), email |-> Lit("alice@example.com"),
                role |-> Lit("premium"), active |-> "true"]) @@
    (USR004 :> [name |-> Lit("David Brown"), email |-> Lit("david@example.com"),
                role |-> Lit("standard"), active |-> "false"]) @@
    (USR005 :> [name |-> Lit("Eve Black"), email |-> Lit("eve@example.com"),
                role |-> Lit("standard"), active |-> "absent"])
\* datetime.now().isoformat(): an opaque text
Now == Lit("<now>")

\* --------------------------------------------------------------- rounding
Abs(i) == IF i < 0 THEN -i ELSE i
\* faulty variant: int(x * 100) / 100, which cuts the fraction off
Truncated(num, den) == {num \div den}
\* round(num/den, 0) for num >= 0: the nearest integer.  On a decimal tie the
\* double that Python rounds lies just above or just below the tie (0.605 as a
\* double), so either neighbour can come out; both are results.
Nearest(num, den) ==
    {r \in (num \div den)..((num \div den) + 1) : 2 * Abs(num - r * den) <= den}

\* round(btc_amount * btc_price, 2), in cents
Subtotals(amount, price) ==
    IF amount = NaN THEN {NaN}
    ELSE IF amount = BigInt THEN {BigFloat}
    ELSE {Num(r) : r \in Nearest(amount.n * price, 10)}
\* round(subtotal + fee, 2), in cents; nan and a float of 1e19 absorb the fee
AddFee(subtotal, fee) ==
    IF IsFinite(subtotal) THEN Num(subtotal.n + fee.n) ELSE subtotal

\* ---------------------------------------------------- filter 1: validation
\* faulty variant: the normalised code is stored before it is looked up
NormalizedThenInvalid(d, currency_upper) ==
    Raised(Put(d, "currency", Str(currency_upper)),
           Exc("ValueError", "ValidationFilter", "currency", "invalid"))
\* the raise for a currency_upper outside VALID_CURRENCIES; currency_upper is
\* a local, the dict is as it came
InvalidCurrency(d, currency_upper) ==
    Raised(d, Exc("ValueError", "ValidationFilter", "currency", "invalid"))

ValidationProcess(d) ==
    IF ~Has(d, "user_id")
    THEN Raised(d, Exc("ValueError", "ValidationFilter", "user_id", "missing"))
    ELSE IF Falsy(d["user_id"]) \/ Strip(PyStr(d["user_id"])) = <<>>
    THEN Raised(d, Exc("ValueError", "ValidationFilter", "user_id", "empty"))
    ELSE IF ~Has(d, "btc_amount")
    THEN Raised(d, Exc("ValueError", "ValidationFilter", "btc_amount", "missing"))
    ELSE IF ~IsNumber(d["btc_amount"])
    THEN Raised(d, Exc("TypeError", "ValidationFilter", "btc_amount", "not a number"))
    ELSE IF IsFinite(d["btc_amount"]) /\ d["btc_amount"].n <= 0
    THEN Raised(d, Exc("ValueError", "ValidationFilter", "btc_amount", "not > 0"))
    ELSE IF ~Has(d, "currency")
    THEN Raised(d, Exc("ValueError", "ValidationFilter", "currency", "missing"))
    ELSE IF Falsy(d["currency"]) \/ Strip(PyStr(d["currency"])) = <<>>
    THEN Raised(d, Exc("ValueError", "ValidationFilter", "currency", "empty"))
    ELSE LET currency_upper == Strip(Upper(PyStr(d["currency"]))) IN
         IF currency_upper \notin VALID_CURRENCIES
         THEN InvalidCurrency(d, currency_upper)
         ELSE Returned(Put(Put(Put(d,
                  "currency", Str(currency_upper)),
                  "user_id", Str(Strip(PyStr(d["user_id"])))),
                  "validation_status", Lit("passed")))

\* ------------------------------------------------ filter 2: authentication
\* faulty variant: user.get("active", True)
ActiveUnlessFalse(user) == user.active # "false"
\* user.get("active", False)
IsActive(user) == user.active = "true"

AuthenticationProcess(d) ==
    IF ~Has(d, "user_id")
    THEN Raised(d, KeyErr("AuthenticationFilter", "user_id"))
    ELSE LET user_id == d["user_id"] IN
         IF ~(user_id.t = "str" /\ user_id.s \in DOMAIN Users)
         THEN Raised(d, Exc("PermissionError", "AuthenticationFilter",
                            "user_id", "does not exist"))
         ELSE LET user == Users[user_id.s] IN
              IF ~IsActive(user)
              THEN Raised(d, Exc("PermissionError", "AuthenticationFilter",
                                 "user_id", "inactive"))
              ELSE Returned(Put(Put(Put(Put(d,
                       "authenticated", PyTrue),
                       "user_name", user.name),
                       "user_email", user.email),
                       "user_role", user.role))

\* ------------------------------------------------ filter 3: transformation
\* _simulate_api_call: the response, or the ConnectionError
ApiHasRate(currency) == currency.t = "str" /\ currency.s \in DOMAIN MOCK_BTC_RATES

\* the results process() can end with (one, or two on a rounding tie)
TransformationProcess(d) ==
    LET missing == FirstMissing(d, <<"currency", "btc_amount">>) IN
    IF missing # ""
    THEN {Raised(d, KeyErr("TransformationFilter", missing))}
    ELSE IF ~ApiHasRate(d["currency"])
    THEN {Raised(d, Exc("ConnectionError", "TransformationFilter",
                        "currency", "no rate"))}
    ELSE IF ~IsNumber(d["btc_amount"])
    THEN {Raised(d, Exc("TypeError", "TransformationFilter",
                        "btc_amount", "unsupported operand"))}
    ELSE LET btc_price == MOCK_BTC_RATES[d["currency"].s] IN
         {Returned(Put(Put(Put(Put(d,
              "btc_price", Num(btc_price)),
              "total_value", total_value),
              "api_source", MOCK_API_SOURCE),
              "price_timestamp", Now))
            : total_value \in Subtotals(d["btc_amount"], btc_price)}

\* ----------------------------------------------------------- filter 4: fee
HasFeeRate(currency) ==
    currency.t = "str" /\ currency.s \in DOMAIN FEE_CONVERSION_RATES
\* _calculate_fee: round(base_fee_usd * rate, 2), in cents
CalculateFee(currency) ==
    CHOOSE r \in Nearest(BASE_FEE_USD * FEE_CONVERSION_RATES[currency.s], 1000) : TRUE

\* faulty variant: the gap in the fee table is reported as the API's error
NoFeeRateAsApiError(currency) ==
    Exc("ConnectionError", "FeeFilter", "currency", "no fee rate")
\* _calculate_fee's raise when conversion_rates.get(currency) is None
NoFeeRate(currency) ==
    Exc("ValueError", "FeeFilter", "currency", "no fee rate")

FeeProcess(d) ==
    LET missing == FirstMissing(d, <<"currency", "total_value">>) IN
    IF missing # ""
    THEN Raised(d, KeyErr("FeeFilter", missing))
    ELSE IF ~HasFeeRate(d["currency"])
    THEN Raised(d, NoFeeRate(d["currency"]))
    ELSE IF ~IsNumber(d["total_value"])
    THEN \* round(subtotal + fee, 2) on a subtotal that is no number
         Raised(d, Exc("TypeError", "FeeFilter", "total_value", "unsupported operand"))
    ELSE LET currency == d["currency"]
             subtotal == d["total_value"]
             fee == Num(CalculateFee(currency))
         IN Returned(Put(Put(Put(Put(Put(d,
                "fee", fee),
                "fee_currency", currency),
                "fee_usd_base", Num(BASE_FEE_USD)),
                "subtotal", subtotal),
                "total_with_fee", AddFee(subtotal, fee)))

\* ------------------------------------------------------- filter 5: storage
\* str(uuid.uuid4())
TxId(id) == [t |-> "str", s |-> <<"uuid4">>, n |-> id]
Completed == Lit("completed")
\* the columns declared NOT NULL by _init_db
NotNullColumns ==
    {"user_id", "user_name", "user_email", "btc_amount", "currency", "btc_price",
     "subtotal", "fee", "total_with_fee", "status", "timestamp"}
Columns == NotNullColumns \cup {"transaction_id", "api_source"}
\* what sqlite3 stores as NULL: None, and a float nan
BindsNull(v) == v.t = "NoneType" \/ v = NaN
\* the tuple `record` that process() binds to the INSERT
StorageRecord(d, id) ==
    [transaction_id |-> TxId(id),
     user_id |-> d["user_id"],
     user_name |-> Get(d, "user_name", Str(<<>>)),
     user_email |-> Get(d, "user_email", Str(<<>>)),
     btc_amount |-> d["btc_amount"],
     currency |-> d["currency"],
     btc_price |-> d["btc_price"],
     subtotal |-> d["subtotal"],
     fee |-> d["fee"],
     total_with_fee |-> d["total_with_fee"],
     api_source |-> Get(d, "api_source", Str(<<>>)),
     status |-> Completed,
     timestamp |-> Now]
RowIds(rows) == {rows[i].transaction_id : i \in 1..Len(rows)}
\* faulty variant: the column is declared without PRIMARY KEY
NoPrimaryKey(record, rows) == FALSE
\* transaction_id TEXT PRIMARY KEY: the INSERT of a key the table holds fails
PrimaryKeyViolated(record, rows) == record.transaction_id \in RowIds(rows)

\* One INSERT and commit: [ok, data, exc, rows].  id is the uuid drawn, fault
\* says the database fails the commit (disk full, database locked).
StorageInsert(d, rows, id, fault) ==
    LET record == StorageRecord(d, id) IN
    IF \E c \in Columns : record[c] = BigInt
    THEN \* raised by cursor.execute while binding; not a sqlite3.Error, so the
         \* except clause is passed over and the finally clause closes
         [ok |-> FALSE, data |-> d, rows |-> rows,
          exc |-> Exc("OverflowError", "sqlite3", "btc_amount",
                      "Python int too large to convert to SQLite INTEGER")]
    ELSE IF \E c \in NotNullColumns : BindsNull(record[c])
    THEN [ok |-> FALSE, data |-> d, rows |-> rows,
          exc |-> Exc("sqlite3.Error", "StorageFilter",
                      CHOOSE c \in NotNullColumns : BindsNull(record[c]),
                      "IntegrityError: NOT NULL constraint failed")]
    ELSE IF PrimaryKeyViolated(record, rows)
    THEN [ok |-> FALSE, data |-> d, rows |-> rows,
          exc |-> Exc("sqlite3.Error", "StorageFilter", "transaction_id",
                      "IntegrityError: UNIQUE constraint failed")]
    ELSE IF fault
    THEN [ok |-> FALSE, data |-> d, rows |-> rows,
          exc |-> Exc("sqlite3.Error", "StorageFilter", "", "OperationalError")]
    ELSE [ok |-> TRUE, exc |-> NoExc, rows |-> Append(rows, record),
          data |-> Put(Put(Put(d,
              "transaction_id", record.transaction_id),
              "timestamp", record.timestamp),
              "status", Completed)]

StorageProcess(d, rows) ==
    LET missing == FirstMissing(d, <<"user_id", "btc_amount", "currency",
                                     "btc_price", "subtotal", "fee",
                                     "total_with_fee">>) IN
    IF missing # ""
    THEN {[ok |-> FALSE, data |-> d, rows |-> rows,
           exc |-> KeyErr("StorageFilter", missing)]}
    ELSE {StorageInsert(d, rows, id, fault) : id \in 1..MaxIds, fault \in BOOLEAN}

\* the database file before any StorageFilter was constructed: no data
\* directory, no table
NoStore == [dir |-> FALSE, tables |-> <<>>]
TableCount(tables, name) == Cardinality({i \in 1..Len(tables) : tables[i] = name})
\* faulty variant: CREATE TABLE transactions, without IF NOT EXISTS
CreateTable(tables, name) ==
    IF TableCount(tables, name) > 0
    THEN [ok |-> FALSE, tables |-> tables]
    ELSE [ok |-> TRUE, tables |-> Append(tables, name)]
\* CREATE TABLE IF NOT EXISTS transactions: the tables of the file afterwards
CreateTableIfNotExists(tables, name) ==
    IF TableCount(tables, name) > 0
    THEN [ok |-> TRUE, tables |-> tables]
    ELSE [ok |-> TRUE, tables |-> Append(tables, name)]
\* StorageFilter.__init__ and _init_db: os.makedirs(..., exist_ok=True), then
\* the CREATE TABLE, the commit and the close
InitDb(store) ==
    LET made == CreateTableIfNotExists(store.tables, "transactions") IN
    [ok |-> made.ok,
     exc |-> IF made.ok THEN NoExc
             ELSE Exc("sqlite3.OperationalError", "StorageFilter._init_db", "",
                      "table transactions already exists"),
     db |-> [dir |-> TRUE, tables |-> made.tables]]

\* ------------------------------------------------------------ the filters
FilterClasses == {"ValidationFilter", "AuthenticationFilter",
                  "TransformationFilter", "FeeFilter", "StorageFilter"}
\* an object that is no BaseFilter
NotAFilter == "object"
\* faulty variant: FeeFilter is registered before TransformationFilter
FeeBeforeQuote == <<"ValidationFilter", "AuthenticationFilter",
                    "FeeFilter", "TransformationFilter", "StorageFilter">>
\* build_pipeline's five add_filter calls
FiveStage == <<"ValidationFilter", "AuthenticationFilter",
               "TransformationFilter", "FeeFilter", "StorageFilter">>

WithRows(r, rows) == [ok |-> r.ok, data |-> r.data, exc |-> r.exc, rows |-> rows]
\* filter_instance.process(current_data): every way the call can end
Process(name, d, rows) ==
    CASE name = "ValidationFilter" -> {WithRows(ValidationProcess(d), rows)}
      [] name = "AuthenticationFilter" -> {WithRows(AuthenticationProcess(d), rows)}
      [] name = "TransformationFilter" ->
             {WithRows(r, rows) : r \in TransformationProcess(d)}
      [] name = "FeeFilter" -> {WithRows(FeeProcess(d), rows)}
      [] name = "StorageFilter" -> StorageProcess(d, rows)

\* ------------------------------------------------------------- the inputs
Absent == [t |-> "absent", s |-> <<>>, n |-> 0]
\* the dict a caller passes: each of the three keys present or not
MkRecord(u, a, c) ==
    LET keys == {k \in {"user_id", "btc_amount", "currency"} :
                   \/ k = "user_id" /\ u # Absent
                   \/ k = "btc_amount" /\ a # Absent
                   \/ k = "currency" /\ c # Absent}
    IN [k \in keys |-> IF k = "user_id" THEN u
                       ELSE IF k = "btc_amount" THEN a ELSE c]
Records(U, A, C) == {MkRecord(u, a, c) : u \in U, a \in A, c \in C}

Padded(cs) == <<" ">> \o cs \o <<" ">>
AllUserIds == {Absent, None, Str(<<" ">>), Str(USR001), Str(Padded(USR001)),
               Str(USR004), Str(USR005), Str(USR999)}
AllAmounts == {Absent, Str(<<"1">>), Num(0), NaN, BigInt}
                  \cup {Num(k) : k \in 1..MaxAmount}
AllCurrencies == {Absent, None, Str(<<>>), Str(<<"u", "s", "d">>), Str(EUR),
                  Str(Padded(<<"g", "b", "p">>)), Str(<<"J", "P", "Y">>)}
\* run_transaction's callers: any record over the three fields
Inputs == Records(AllUserIds, AllAmounts, AllCurrencies)

\* a smaller set for pipelines of any shape
DemoInputs ==
    Records({Absent, None, Str(USR001), Str(USR004)},
            {Absent, Str(<<"1">>), NaN, Num(1)},
            {Absent, Str(<<"u", "s", "d">>), Str(EUR)})

\* 0.5 BTC and 1.2 BTC in units of 1e-5 BTC
HalfBTC == 50000
OnePointTwoBTC == 120000
\* the amounts of the priced transactions
QuoteInputs ==
    Records({Str(USR001), Str(USR999)},
            {Num(0), Num(HalfBTC), Num(OnePointTwoBTC)}
                \cup {Num(k) : k \in 1..(MaxAmount + 3)},
            {Str(<<"u", "s", "d">>), Str(USD), Str(EUR), Str(GBP),
             Str(Padded(<<"g", "b", "p">>))})

\* the record the first four filters make of USR001 buying 0.00001 BTC in USD
Enriched ==
    LET validated == ValidationProcess(MkRecord(Str(USR001), Num(1), Str(USD))).data
        authenticated == AuthenticationProcess(validated).data
        priced == (CHOOSE r \in TransformationProcess(authenticated) : TRUE).data
    IN FeeProcess(priced).data
Remove(d, k) == [x \in (DOMAIN d) \ {k} |-> d[x]]
\* records as a filter called on its own can be handed: the caller's records,
\* and the enriched record with one key taken out or one value replaced
StageInputs ==
    Inputs
    \cup {Enriched}
    \cup {Remove(Enriched, k) : k \in {"user_id", "btc_amount", "currency", "btc_price",
                                       "total_value", "subtotal", "fee",
                                       "total_with_fee"}}
    \cup {Put(Enriched, "currency", c) : c \in {None, Str(<<"u", "s", "d">>),
                                                Str(EUR), Str(<<"J", "P", "Y">>),
                                                Str(<<"j", "p", "y">>)}}
    \cup {Put(Enriched, "btc_amount", a) : a \in {Str(<<"1">>), NaN, BigInt}}
    \cup {Put(Enriched, "total_value", Str(<<"6", "5">>)),
          Put(Enriched, "user_id", None)}

\* ---------------------------------------------------------------- state
VARIABLES
    filters,        \* Pipeline._filters: the class names, in order
    pc,             \* idle | running | succeeded | failed | rejected | crashed
    step,           \* execute's loop variable; 0 outside the loop
    heap,           \* the dict objects: heap[1] the caller's, heap[2] the copy
    current_data,   \* execute's current_data: an index of heap, 0 when unbound
    original,       \* the caller's dict as it was when execute was called
    raised,         \* the exception the last call left to its caller
    returned,       \* the object execute returned, 0 when none
    calls,          \* the process() calls of this run, in order
    console,        \* what the orchestrator printed in this run
    rows,           \* the committed rows of table transactions, in rowid order
    rows0,          \* rows as they were when this run began
    db,             \* the database file: its directory and its tables
    runs,           \* calls of execute (of process, when called on its own) so far
    successes       \* calls of execute that returned

vars == <<filters, pc, step, heap, current_data, original, raised, returned,
          calls, console, rows, rows0, db, runs, successes>>

Event(kind, i, name, type) == [kind |-> kind, step |-> i, name |-> name, type |-> type]

Init ==
    /\ filters = <<>>
    /\ pc = "idle"
    /\ step = 0
    /\ heap = <<>>
    /\ current_data = 0
    /\ original = EmptyDict
    /\ raised = NoExc
    /\ returned = 0
    /\ calls = <<>>
    /\ console = <<>>
    /\ rows = <<>>
    /\ rows0 = <<>>
    /\ db = NoStore
    /\ runs = 0
    /\ successes = 0

\* no run of this pipeline object is in sight: the last run's record is dropped
ForgetRun ==
    /\ pc' = "idle"
    /\ step' = 0
    /\ heap' = <<>>
    /\ current_data' = 0
    /\ original' = EmptyDict
    /\ returned' = 0
    /\ calls' = <<>>
    /\ console' = <<>>
    /\ rows0' = rows

\* faulty variant: add_filter appends whatever it is given
AcceptAnything(f) == TRUE
\* isinstance(filter_instance, BaseFilter)
IsBaseFilter(f) == f \in FilterClasses

\* Pipeline.add_filter(f)
AddFilter(f) ==
    /\ pc # "running"
    /\ Len(filters) < MaxFilters
    /\ ForgetRun
    /\ IF ~IsBaseFilter(f)
       THEN /\ raised' = Exc("TypeError", "Pipeline.add_filter", "", "not a BaseFilter")
            /\ filters' = filters
            /\ db' = db
       ELSE IF f = "StorageFilter"
       THEN \* the argument is StorageFilter(...): __init__ runs _init_db first
            /\ db' = InitDb(db).db
            /\ raised' = InitDb(db).exc
            /\ filters' = IF InitDb(db).ok THEN Append(filters, f) ELSE filters
       ELSE /\ raised' = NoExc
            /\ filters' = Append(filters, f)
            /\ db' = db
    /\ UNCHANGED <<rows, runs, successes>>

\* main.build_pipeline(): a new Pipeline with the five filters added
BuildPipeline ==
    /\ pc # "running"
    /\ filters # FiveStage \/ pc # "idle"
    /\ ForgetRun
    /\ db' = InitDb(db).db
    /\ raised' = InitDb(db).exc
    \* when StorageFilter(...) raises, build_pipeline returns no pipeline
    /\ filters' = IF InitDb(db).ok THEN FiveStage ELSE <<>>
    /\ UNCHANGED <<rows, runs, successes>>

\* _print_header: the field whose format() raises TypeError, or ""
HeaderFailure(t) ==
    IF Has(t, "user_id") /\ ~Formattable(t["user_id"]) THEN "user_id"
    ELSE IF Has(t, "currency") /\ ~Formattable(t["currency"]) THEN "currency"
    ELSE ""

\* faulty variant: current_data = transaction, the caller's own dict
NoCopy(objects, ref) == [heap |-> objects, ref |-> ref]
\* transaction.copy(): the objects after it, and which of them the copy is
CopyRecord(objects, ref) ==
    [heap |-> Append(objects, objects[ref]), ref |-> Len(objects) + 1]

\* Pipeline.execute(transaction), up to the loop
ExecuteBegin(t, maxRuns) ==
    /\ pc # "running"
    /\ runs < maxRuns
    /\ runs' = runs + 1
    /\ original' = t
    /\ returned' = 0
    /\ calls' = <<>>
    /\ rows0' = rows
    /\ IF filters = <<>>
       THEN /\ pc' = "rejected"
            /\ raised' = Exc("RuntimeError", "Pipeline.execute", "", "no filters")
            /\ heap' = <<t>>
            /\ current_data' = 0
            /\ step' = 0
            /\ console' = <<>>
       ELSE IF HeaderFailure(t) # ""
       THEN /\ pc' = "crashed"
            /\ raised' = Exc("TypeError", "Pipeline._print_header", HeaderFailure(t),
                             "unsupported format string")
            /\ heap' = <<t>>
            /\ current_data' = 0
            /\ step' = 0
            /\ console' = <<>>
       ELSE /\ pc' = "running"
            /\ raised' = NoExc
            /\ heap' = CopyRecord(<<t>>, 1).heap
            /\ current_data' = CopyRecord(<<t>>, 1).ref
            /\ step' = 1
            /\ console' = <<Event("header", 0, "", "")>>
    /\ UNCHANGED <<filters, rows, db, successes>>

\* what the except clause hands on: a bare raise, the filter's exception itself
Reraise(exc, i, filter_name) == exc

\* faulty variant: the except clause swallows the exception and the loop goes on
LoopSkipsFailed(ok, i) == [pc |-> "running", step |-> i + 1]
\* faulty variant: the loop passes over every other filter
LoopSkipsOne(ok, i) ==
    IF ok THEN [pc |-> "running", step |-> i + 2]
    ELSE [pc |-> "failed", step |-> i]
\* where the loop stands after the process() call of filter i: on to the next
\* filter, or out of execute by the raise
LoopAfter(ok, i) ==
    IF ok THEN [pc |-> "running", step |-> i + 1]
    ELSE [pc |-> "failed", step |-> i]

\* one turn of execute's loop: the process() call of filter `step`
RunStage ==
    /\ pc = "running"
    /\ step <= Len(filters)
    /\ LET filter_name == filters[step]
           arg == heap[current_data]
       IN \E r \in Process(filter_name, arg, rows) :
            /\ heap' = [heap EXCEPT ![current_data] = r.data]
            /\ rows' = r.rows
            /\ calls' = Append(calls, [name |-> filter_name, arg |-> arg,
                                       ok |-> r.ok, out |-> r.data])
            /\ step' = LoopAfter(r.ok, step).step
            /\ pc' = LoopAfter(r.ok, step).pc
            /\ IF r.ok
               THEN /\ raised' = NoExc
                    /\ console' = console \o <<Event("step", step, filter_name, "")>>
               ELSE /\ raised' = Reraise(r.exc, step, filter_name)
                    /\ console' = console \o
                           <<Event("step", step, filter_name, ""),
                             Event("error", step, filter_name, r.exc.type)>>
    /\ UNCHANGED <<filters, current_data, original, returned, rows0, db, runs,
                   successes>>

\* the loop is over: _print_footer and return current_data
ExecuteReturn ==
    /\ pc = "running"
    /\ step > Len(filters)
    /\ pc' = "succeeded"
    /\ returned' = current_data
    /\ successes' = successes + 1
    /\ console' = Append(console, Event("footer", 0, "", ""))
    /\ UNCHANGED <<filters, step, heap, current_data, original, raised, calls,
                   rows, rows0, db, runs>>

\* run_transaction on any record: build_pipeline(), then execute on the new
\* pipeline (at first the caller holds a Pipeline() with no filters)
Next ==
    \/ BuildPipeline
    \/ \E t \in Inputs : pc = "idle" /\ ExecuteBegin(t, MaxRuns)
    \/ RunStage
    \/ ExecuteReturn
Spec == Init /\ [][Next]_vars

\* pipelines of any shape, built with add_filter
NextAny ==
    \/ \E f \in FilterClasses \cup {NotAFilter} : AddFilter(f)
    \/ \E t \in DemoInputs : ExecuteBegin(t, MaxRuns)
    \/ RunStage
    \/ ExecuteReturn
SpecAny == Init /\ [][NextAny]_vars

\* the five-stage pipeline on priced transactions, one run
NextQuote ==
    \/ BuildPipeline
    \/ \E t \in QuoteInputs : pc = "idle" /\ ExecuteBegin(t, 1)
    \/ RunStage
    \/ ExecuteReturn
SpecQuote == Init /\ [][NextQuote]_vars

\* f(...).process(t) called on its own, as a test of one filter does: the filter
\* is constructed and process works on the caller's dict itself
ProcessCall(f, t, maxCalls) ==
    /\ pc # "running"
    /\ runs < maxCalls
    /\ runs' = runs + 1
    /\ \E r \in Process(f, t, rows) :
         /\ filters' = <<f>>
         /\ pc' = "idle"
         /\ step' = 0
         /\ heap' = <<r.data>>
         /\ current_data' = 1
         /\ original' = t
         /\ raised' = r.exc
         /\ returned' = IF r.ok THEN 1 ELSE 0
         /\ calls' = <<[name |-> f, arg |-> t, ok |-> r.ok, out |-> r.data]>>
         /\ console' = <<>>
         /\ rows' = r.rows
         /\ rows0' = rows
    /\ db' = IF f = "StorageFilter" THEN InitDb(db).db ELSE db
    /\ UNCHANGED successes

\* the filters one at a time, on any record: two calls, so that the second
\* meets the row the first may have stored
NextStage == \E f \in FilterClasses, t \in StageInputs : ProcessCall(f, t, 2)
SpecStage == Init /\ [][NextStage]_vars

\* ================================================================ claims
Ended == pc \in {"succeeded", "failed", "rejected", "crashed"}
LastCall == calls[Len(calls)]

\* C1 (fail-fast): in every run, only the last process() call can have raised;
\* when one raises, execute is over with that exception and returns nothing,
\* and from then on no filter is called until the caller starts another run.
C1_State ==
    /\ \A j \in 1..(Len(calls) - 1) : calls[j].ok
    /\ (Len(calls) > 0 /\ ~LastCall.ok) => pc = "failed"
    /\ pc = "failed" =>
         /\ Len(calls) = step
         /\ ~calls[step].ok
         /\ raised.type # ""
         /\ returned = 0
C1_Step ==
    pc = "failed" =>
        \/ calls' = calls /\ pc' = "failed" /\ raised' = raised
        \/ calls' = <<>> /\ (runs' = runs + 1 \/ pc' = "idle")
\* C1: C1_State holds in every state and C1_Step of every step
C1_FailFast == []C1_State /\ [][C1_Step]_vars
\* a run that failed at its second filter, with a third one registered
C1_Witness == pc = "failed" /\ step = 2 /\ Len(filters) = 3

\* C2 (order and data flow): the k-th process() call of a run is on the k-th
\* registered filter, the first gets a dict equal to the caller's, each later
\* one gets the dict the one before returned, and a run that succeeds has
\* called all the filters and returns what the last one returned.
C2_OrderAndFlow ==
    /\ Len(calls) <= Len(filters)
    /\ \A k \in 1..Len(calls) : calls[k].name = filters[k]
    /\ Len(calls) > 0 => calls[1].arg = original
    /\ \A k \in 1..(Len(calls) - 1) : calls[k + 1].arg = calls[k].out
    /\ pc = "running" => Len(calls) = step - 1
    /\ pc = "succeeded" =>
         /\ Len(calls) = Len(filters)
         /\ \A k \in 1..Len(calls) : calls[k].ok
         /\ returned # 0
         /\ heap[returned] = LastCall.out
C2_Witness ==
    /\ pc = "succeeded"
    /\ filters = <<"TransformationFilter", "FeeFilter", "StorageFilter">>

\* C3 (the caller's record is untouched): during and after every call of
\* execute, however it ends, the caller's dict is as it was passed, and the
\* dict execute returns is another object.
C3_CallerRecordUnchanged ==
    /\ heap # <<>> => heap[1] = original
    /\ returned # 0 => returned # 1
\* a successful run that normalised "usd" and marked validation on the copy
C3_Witness ==
    /\ pc = "succeeded"
    /\ Has(original, "currency")
    /\ original["currency"] = Str(<<"u", "s", "d">>)
    /\ heap[1]["currency"] = Str(<<"u", "s", "d">>)
    /\ heap[returned]["currency"] = Str(USD)
    /\ Has(heap[returned], "validation_status")
    /\ ~Has(heap[1], "validation_status")

\* C4 (context on the propagated failure): when a filter fails, the exception
\* that reaches the caller carries the index and the name of that filter.
C4_ContextAttached ==
    pc = "failed" =>
        raised.context = <<[step |-> step, filter_name |-> filters[step]]>>

\* C5 (configuration errors at setup only): add_filter never lets a
\* non-filter into the list and leaves the list as it was when it raises;
\* execute on an empty pipeline raises RuntimeError with no filter called, no
\* copy made and no row written; a run that entered the loop never ends with
\* a configuration error.
ConfigOrigins == {"Pipeline.add_filter", "Pipeline.execute"}
C5_State ==
    /\ \A i \in 1..Len(filters) : filters[i] \in FilterClasses
    /\ pc = "rejected" =>
         /\ filters = <<>>
         /\ raised.type = "RuntimeError" /\ raised.origin = "Pipeline.execute"
         /\ calls = <<>>
         /\ heap = <<original>>
         /\ current_data = 0
         /\ rows = rows0
    /\ pc \in {"running", "succeeded", "failed", "crashed"} =>
         /\ filters # <<>>
         /\ raised.origin \notin ConfigOrigins
    /\ raised.origin = "Pipeline.add_filter" =>
         pc = "idle" /\ raised.type = "TypeError"
C5_Step ==
    /\ raised'.origin \in ConfigOrigins =>
         filters' = filters /\ rows' = rows /\ calls' = <<>>
    /\ (runs' = runs + 1 /\ filters = <<>>) => pc' = "rejected"
\* C5: C5_State holds in every state and C5_Step of every step
C5_ConfigErrorsAtSetup == []C5_State /\ [][C5_Step]_vars
C5_Witness ==
    /\ pc = "rejected"
    /\ raised.type = "RuntimeError"
    /\ Has(original, "user_id")

\* --------------------------------------------------- the five-stage pipeline
InputErrorTypes == {"ValueError", "TypeError"}
\* the currency of a record after str(), upper() and strip()
NormalizedCurrency(t) == Strip(Upper(PyStr(t["currency"])))
\* a record Validate has nothing against: a non-blank text user_id, a finite
\* amount above zero, a text currency that normalises into the supported set
WellFormed(t) ==
    /\ Has(t, "user_id") /\ t["user_id"].t = "str" /\ Strip(t["user_id"].s) # <<>>
    /\ Has(t, "btc_amount") /\ IsFinite(t["btc_amount"]) /\ t["btc_amount"].n > 0
    /\ Has(t, "currency") /\ t["currency"].t = "str"
    /\ NormalizedCurrency(t) \in VALID_CURRENCIES
\* the directory has the (trimmed) user_id with the active flag set
ActiveUser(t) ==
    LET id == Strip(t["user_id"].s) IN
    id \in DOMAIN Users /\ Users[id].active = "true"

\* C6 (unsupported currency stops at Validate): a run of the five-stage
\* pipeline on a record whose currency is a text outside USD, EUR, GBP ends
\* failed at stage 1 with a ValueError or TypeError raised by ValidationFilter,
\* after that single process() call and with the table as it was.
C6_InvalidCurrencyFailsAtValidate ==
    ( /\ filters = FiveStage
      /\ Ended
      /\ Has(original, "currency")
      /\ original["currency"].t = "str"
      /\ NormalizedCurrency(original) \notin VALID_CURRENCIES )
    => /\ pc = "failed"
       /\ step = 1
       /\ raised.type \in InputErrorTypes
       /\ raised.origin = "ValidationFilter"
       /\ Len(calls) = 1
       /\ rows = rows0

\* C7 (unknown or inactive user): a run of the five-stage pipeline on a
\* well-formed record whose user is not in the directory, or is there without
\* a true active flag, ends failed at stage 2 with a PermissionError and the
\* table holds the rows it held when the run began.
C7_InactiveUserFailsAtAuthenticate ==
    ( /\ filters = FiveStage
      /\ Ended
      /\ WellFormed(original)
      /\ ~ActiveUser(original) )
    => /\ pc = "failed"
       /\ step = 2
       /\ raised.type = "PermissionError"
       /\ raised.origin = "AuthenticationFilter"
       /\ Len(calls) = 2
       /\ rows = rows0
\* the user without an active flag is turned away, after an earlier run stored a row
C7_Witness ==
    /\ pc = "failed"
    /\ step = 2
    /\ filters = FiveStage
    /\ original["user_id"] = Str(USR005)
    /\ rows # <<>>
    /\ rows = rows0

\* C8 (amounts): the record a five-stage run returns has subtotal = total_value
\* = a nearest cent to btc_amount * btc_price, fee = the nearest cent to 5.00 *
\* rate(currency), and total_with_fee = subtotal + fee in cents; 0.5 BTC in USD
\* gives 32500.00 / 5.00 / 32505.00 and 1.2 BTC in EUR 72600.00 / 4.62 / 72604.62.
C8_Amounts ==
    (pc = "succeeded" /\ filters = FiveStage) =>
        LET r == heap[returned]
            amount == original["btc_amount"].n
            currency == r["currency"].s
        IN /\ WellFormed(original) /\ ActiveUser(original)
           /\ currency = NormalizedCurrency(original)
           /\ r["subtotal"] = r["total_value"]
           /\ IsFinite(r["subtotal"]) /\ IsFinite(r["fee"]) /\ IsFinite(r["total_with_fee"])
           /\ 2 * Abs(amount * r["btc_price"].n - 10 * r["subtotal"].n) <= 10
           /\ 2 * Abs(500 * FEE_CONVERSION_RATES[currency] - 1000 * r["fee"].n) < 1000
           /\ r["total_with_fee"].n = r["subtotal"].n + r["fee"].n
           /\ (amount = HalfBTC /\ currency = USD) =>
                 /\ r["subtotal"].n = 3250000
                 /\ r["fee"].n = 500
                 /\ r["total_with_fee"].n = 3250500
           /\ (amount = OnePointTwoBTC /\ currency = EUR) =>
                 /\ r["subtotal"].n = 7260000
                 /\ r["fee"].n = 462
                 /\ r["total_with_fee"].n = 7260462
\* 0.00001 BTC in " gbp ": 0.518 rounds to 0.52, the fee is 3.96, the total 4.48
C8_Witness ==
    /\ pc = "succeeded"
    /\ original["btc_amount"] = Num(1)
    /\ original["currency"] = Str(Padded(<<"g", "b", "p">>))
    /\ heap[returned]["subtotal"] = Num(52)
    /\ heap[returned]["fee"] = Num(396)
    /\ heap[returned]["total_with_fee"] = Num(448)

\* C9 (one row per successful run): between runs the table has as many rows as
\* runs have succeeded, all with status "completed" and pairwise different ids;
\* a successful run has appended one row, whose id is the transaction_id of the
\* record it returns; a run that did not succeed left the table as it found
\* it; and no step changes or removes a row the table already holds.
C9_State ==
    /\ pc # "running" => Len(rows) = successes
    /\ Cardinality(RowIds(rows)) = Len(rows)
    /\ \A i \in 1..Len(rows) : rows[i].status = Completed
    /\ pc = "succeeded" =>
         /\ Len(rows) = Len(rows0) + 1
         /\ SubSeq(rows, 1, Len(rows0)) = rows0
         /\ rows[Len(rows)].transaction_id = heap[returned]["transaction_id"]
         /\ heap[returned]["status"] = Completed
    /\ pc \in {"failed", "rejected", "crashed"} => rows = rows0
C9_Step ==
    /\ Len(rows') \in {Len(rows), Len(rows) + 1}
    /\ SubSeq(rows', 1, Len(rows)) = rows
\* C9: C9_State holds in every state and C9_Step of every step
C9_OneRowPerSuccess == []C9_State /\ [][C9_Step]_vars
\* the second successful run against the same table
C9_Witness ==
    /\ pc = "succeeded"
    /\ Len(rows) = 2
    /\ successes = 2

\* C10 (a failed store write): when the INSERT or the commit of Persist fails,
\* what reaches the caller is a sqlite3.Error raised by StorageFilter, the
\* table is as it was, and the record has no transaction_id, timestamp or status.
C10_WriteFailureIsStorageError ==
    ( /\ filters = FiveStage
      /\ pc = "failed"
      /\ step = 5 )
    => /\ raised.type = "sqlite3.Error"
       /\ raised.origin = "StorageFilter"
       /\ rows = rows0
       /\ {"transaction_id", "timestamp", "status"} \cap DOMAIN heap[current_data] = {}

\* C11 (store initialization is idempotent): constructing a StorageFilter, in
\* build_pipeline or for add_filter, never raises, whatever the file already
\* holds; afterwards the file has the one table transactions, a file that had
\* it is left as it was, and the rows are the rows there were.  Running
\* _init_db on its own result changes nothing.
C11_State ==
    /\ raised.origin # "StorageFilter._init_db"
    /\ TableCount(db.tables, "transactions") = Len(db.tables)
    /\ Len(db.tables) <= 1
    /\ InitDb(db).ok
    /\ InitDb(InitDb(db).db) = InitDb(db)
    /\ (rows # <<>> \/ \E i \in 1..Len(filters) : filters[i] = "StorageFilter")
          => db = [dir |-> TRUE, tables |-> <<"transactions">>]
C11_Step ==
    (BuildPipeline \/ AddFilter("StorageFilter")) =>
        /\ raised' = NoExc
        /\ rows' = rows
        /\ db'.tables = <<"transactions">>
        /\ db.tables = <<"transactions">> => db' = db
\* C11: C11_State holds in every state and C11_Step of every step
C11_InitIdempotent == []C11_State /\ [][C11_Step]_vars
\* the third construction, against a table that holds two rows
C11_Witness ==
    /\ pc = "idle"
    /\ filters = FiveStage
    /\ Len(rows) = 2
    /\ db.tables = <<"transactions">>

\* ------------------------------------------------- the filters one at a time
JPY == <<"J", "P", "Y">>
\* what the Quote stage raises when the API has no price for the currency
PriceGapError ==
    (CHOOSE r \in TransformationProcess(MkRecord(Str(USR001), Num(1), Str(JPY))) :
        TRUE).exc
\* the last call was FeeFilter.process on a record with the keys it reads
FeeCalled ==
    /\ calls # <<>>
    /\ LastCall.name = "FeeFilter"
    /\ Has(LastCall.arg, "currency")
    /\ Has(LastCall.arg, "total_value")
\* the last call was TransformationFilter.process on a record with its keys
QuoteCalled ==
    /\ calls # <<>>
    /\ LastCall.name = "TransformationFilter"
    /\ Has(LastCall.arg, "currency")
    /\ Has(LastCall.arg, "btc_amount")

\* C12 as stated (the fee gap is the Quote stage's error kind): when the fee
\* table has no rate for the currency, FeeFilter.process raises an exception of
\* the type the Quote stage raises for a missing price, which is none of the
\* types Validate raises.
C12_FeeGapIsUpstreamError ==
    (FeeCalled /\ ~HasFeeRate(LastCall.arg["currency"])) =>
        /\ ~LastCall.ok
        /\ raised.origin = "FeeFilter"
        /\ raised.type = PriceGapError.type
        /\ raised.type \notin InputErrorTypes
\* C12 amended (the fee gap is a ValueError): when the fee table has no rate
\* for the currency, FeeFilter.process raises a ValueError naming the currency,
\* the type Validate raises for a bad value and not the ConnectionError the
\* Quote stage raises for a missing price; whether it raises for the currency
\* is decided by the fee table alone, so a currency with a rate and a numeric
\* total_value always passes.
C12_FeeGapIsValueError ==
    /\ PriceGapError.type = "ConnectionError"
    /\ (QuoteCalled /\ ~ApiHasRate(LastCall.arg["currency"])) =>
          /\ ~LastCall.ok
          /\ raised.type = "ConnectionError"
          /\ raised.origin = "TransformationFilter"
    /\ (FeeCalled /\ ~HasFeeRate(LastCall.arg["currency"])) =>
          /\ ~LastCall.ok
          /\ raised.type = "ValueError"
          /\ raised.origin = "FeeFilter"
          /\ raised.field = "currency"
          /\ raised.type \in InputErrorTypes
          /\ raised.type # PriceGapError.type
    /\ (FeeCalled /\ HasFeeRate(LastCall.arg["currency"])) =>
          LastCall.ok = IsNumber(LastCall.arg["total_value"])
\* the enriched record with its currency replaced by JPY, handed to FeeFilter
C12_Witness ==
    /\ FeeCalled
    /\ LastCall.arg["currency"] = Str(JPY)
    /\ LastCall.arg["total_value"] = Num(65)
    /\ raised.type = "ValueError"

\* C13 (every run ends in a stage or in success): a call of execute on a
\* pipeline with at least one filter, whatever the record, is running filter 1
\* before any process() call, and once over it has either succeeded, after
\* every filter returned and with the last one's dict as its result, or failed
\* at the one filter whose process() raised, with no result; it never ends
\* anywhere else.
C13_ExecuteEndsInStage ==
    (filters # <<>> /\ pc # "idle") =>
        /\ pc \in {"running", "succeeded", "failed"}
        /\ (pc = "running" /\ calls = <<>>) => step = 1
        /\ pc = "succeeded" =>
              /\ Len(calls) = Len(filters)
              /\ \A k \in 1..Len(calls) : calls[k].ok
              /\ returned # 0
              /\ heap[returned] = LastCall.out
        /\ pc = "failed" =>
              /\ step \in 1..Len(filters)
              /\ Len(calls) = step
              /\ ~calls[step].ok
              /\ \A k \in 1..(step - 1) : calls[k].ok
              /\ raised.origin = filters[step]
              /\ returned = 0

\* the last call was ValidationFilter.process
ValidateCalled == calls # <<>> /\ LastCall.name = "ValidationFilter"

\* C14 (Validate reports the first bad field): user_id must be present and not
\* empty after trimming, then btc_amount present, a number and strictly greater
\* than zero, then currency present, not empty and in the supported set;
\* ValidationFilter.process returns when all three are good and otherwise
\* raises naming the first bad field in that order, with a TypeError when that
\* field is a btc_amount that is no number and a ValueError in every other case.
C14_ValidateReportsFirstBadField ==
    ValidateCalled =>
        LET t == LastCall.arg
            goodUserId ==
                /\ Has(t, "user_id")
                /\ ~Falsy(t["user_id"])
                /\ Strip(PyStr(t["user_id"])) # <<>>
            numeric == Has(t, "btc_amount") /\ t["btc_amount"].t = "num"
            goodAmount ==
                /\ numeric
                /\ \/ t["btc_amount"] = BigInt
                   \/ t["btc_amount"].s = <<>> /\ t["btc_amount"].n > 0
            goodCurrency ==
                /\ Has(t, "currency")
                /\ ~Falsy(t["currency"])
                /\ Strip(PyStr(t["currency"])) # <<>>
                /\ Strip(Upper(PyStr(t["currency"]))) \in {USD, EUR, GBP}
            first == IF ~goodUserId THEN "user_id"
                     ELSE IF ~goodAmount THEN "btc_amount"
                     ELSE IF ~goodCurrency THEN "currency"
                     ELSE ""
        IN /\ LastCall.ok = (first = "")
           /\ first # "" =>
                /\ raised.origin = "ValidationFilter"
                /\ raised.field = first
                /\ raised.type =
                     IF first = "btc_amount" /\ Has(t, "btc_amount") /\ ~numeric
                     THEN "TypeError" ELSE "ValueError"

Reads(name) ==
    CASE name = "ValidationFilter" -> {}
      [] name = "AuthenticationFilter" -> {"user_id"}
      [] name = "TransformationFilter" -> {"currency", "btc_amount"}
      [] name = "FeeFilter" -> {"currency", "total_value"}
      [] name = "StorageFilter" -> {"user_id", "btc_amount", "currency", "btc_price",
                                    "subtotal", "fee", "total_with_fee"}

\* C16 (the key set only grows): in a run of the five-stage pipeline every
\* process() call leaves the dict with all the keys it came with, those of the
\* caller's record included; when a filter after ValidationFilter starts, every
\* key it reads is in the dict; and no run ends with a KeyError.
C16_KeysOnlyGrow ==
    filters = FiveStage =>
        /\ \A k \in 1..Len(calls) :
              /\ DOMAIN original \subseteq DOMAIN calls[k].arg
              /\ DOMAIN calls[k].arg \subseteq DOMAIN calls[k].out
              /\ k >= 2 => Reads(calls[k].name) \subseteq DOMAIN calls[k].arg
        /\ (pc = "running" /\ step \in 2..Len(filters)) =>
              Reads(filters[step]) \subseteq DOMAIN heap[current_data]
        /\ raised.type # "KeyError"
        /\ raised.detail # "missing key"
\* a run through all five filters: the three keys of the caller have become
\* twenty, and StorageFilter found its seven
C16_Witness ==
    /\ filters = FiveStage
    /\ pc = "succeeded"
    /\ Len(calls) = 5
    /\ DOMAIN original = {"user_id", "btc_amount", "currency"}
    /\ Reads("StorageFilter") \subseteq DOMAIN calls[5].arg
    /\ Cardinality(DOMAIN heap[returned]) = 20
====
